---- MODULE Spec2Model ----
(***************************************************************************)
(* A model of pixi-sound's Sound (src/src/Sound.ts) together with the      *)
(* decode service of SoundContext and the life cycle of the SoundInstance  *)
(* objects a Sound spawns.  One Sound is modelled from the end of its      *)
(* constructor on; every public method is one action, and the asynchronous *)
(* completions (byte acquisition, decodeAudioData, an instance's natural   *)
(* end) are actions of their own.  Spec is the life cycle of the Sound and *)
(* SpecBlock the same with the block property set, SpecBuffer the Sound    *)
(* built from bytes in memory with its buffer property set, SpecStop that  *)
(* Sound with three instances active at once; SpecVolume                   *)
(* adds the volume of the Sound, SpecMix the volume and mute and SpecPause *)
(* the pause of the SoundContext, each with the context's destroy          *)
(* (src/unnamed/part_002); SpecSprite adds the sprite table and play() by  *)
(* sprite name, SpecTable the changes of the table; SpecEnd and            *)
(* SpecComplete follow the instances to their end and the complete         *)
(* callbacks; SpecLib is the library's registry of Sounds.                 *)
(***************************************************************************)
EXTENDS Naturals, Sequences, FiniteSets

\* Number of SoundInstance objects one behaviour may spawn.
MaxInst == 2
\* Number of _beginPreload invocations one behaviour may make.
MaxLoads == 2
\* Volumes are the levels 0..MaxVol; level k stands for k/MaxVol, MaxVol for 1.
MaxVol == 2
\* Number of suspend()/resume() calls of the AudioContext that may be unsettled.
MaxPending == 2

\* The Sounds a library constructs in one run
MaxSounds == 3
\* Number of SoundInstance objects a behaviour may spawn where one of several
\* active instances is stopped.
MaxActive == 3

VARIABLES
    src,              \* this.src / this.useXHR: "none", "url" (XHR) or "path" (fs)
    srcBuffer,        \* this.srcBuffer is set
    isLoaded,         \* this.isLoaded
    isPlaying,        \* this.isPlaying
    autoPlay,         \* this.autoPlay
    singleInstance,   \* this.singleInstance
    block,            \* sound.block, the property the tests and the example page set
    preload,          \* this.preload
    autoPlayOptions,  \* this._autoPlayOptions: <<>> is null, <<o>> holds options o
    buffer,           \* this._source.buffer is set
    destroyed,        \* destroy() has run: _nodes, _context, _source, _instances are null
    instances,        \* this._instances, ids in array order
    inst,             \* the SoundInstance objects, by id
    loads,            \* the _beginPreload invocations, in call order
    last,             \* what the last call returned
    teardown,         \* what destroy() has torn down, in the order it did
    volume,           \* this._volume
    gain,             \* this._nodes.gain.gain.value
    sprites,          \* this._sprites, by name
    ctx,              \* the SoundContext the Sound was given
    sounds,           \* the library's registry _sounds: alias -> Sound id, 0 for none
    made              \* the Sounds the library has constructed, in order

vars == <<src, srcBuffer, isLoaded, isPlaying, autoPlay, singleInstance, block,
          preload, autoPlayOptions, buffer, destroyed, instances, inst, loads, last,
          teardown, volume, gain, sprites, ctx, sounds, made>>

\* The library
libVars == <<sounds, made>>

\* The variables that play, stop, pause, resume and the completions of a load
\* do not assign
restVars == <<teardown, volume, gain, sprites, ctx, libVars>>

\* The other fields of the Sound, but for what the last call returned
soundVars == <<src, srcBuffer, isLoaded, isPlaying, autoPlay, singleInstance,
               block, preload, autoPlayOptions, buffer, destroyed, instances,
               inst, loads>>

InstIds == 1..MaxInst

ActiveIds == 1..MaxActive

Levels == 0..MaxVol

\* The sprite names callers use; "" is no sprite
SpriteNames == {"x", "y"}

\* Object.assign({complete: null, loaded: null, sprite: null, start: 0, ...},
\* options || {}) applied to no options.  Times are whole seconds; an end, speed
\* or offset of 0 is one that was not given.
DefaultOptions == [loop |-> FALSE, complete |-> FALSE, sprite |-> "",
                   start |-> 0, end |-> 0, speed |-> 0, offset |-> 0]

\* PlayOptions without sprite, start, end, speed or offset: loop, and whether a
\* complete callback was passed.
PlayOptionsSet == {[DefaultOptions EXCEPT !.complete = TRUE],
                   [DefaultOptions EXCEPT !.loop = TRUE]}

\* The same and play() without options, for the runs that follow instances to
\* their end
EndPlayOptionsSet == PlayOptionsSet \cup {DefaultOptions}

\* PlayOptions that name a sprite, with and without start, end, speed or the
\* deprecated offset passed along, and options with a window of their own
SpritePlayOptionsSet ==
    {[DefaultOptions EXCEPT !.sprite = "x"],
     [DefaultOptions EXCEPT !.sprite = "y", !.start = 3, !.end = 4, !.speed = 2],
     [DefaultOptions EXCEPT !.sprite = "x", !.offset = 3],
     [DefaultOptions EXCEPT !.start = 3, !.end = 4]}

OptionsOrDefault(o) == IF o = <<>> THEN DefaultOptions ELSE o[1]

\* A SoundInstance that SoundInstance.create has not handed out yet.
NoInstance == [state |-> "None", loop |-> FALSE, complete |-> FALSE,
               start |-> 0, end |-> 0, speed |-> 0, destroys |-> 0]

----------------------------------------------------------------------------
\* Array helpers

\* Array.prototype.indexOf: the first index holding x, 0 when absent (-1 in JS)
IndexOf(s, x) ==
    IF \E k \in 1..Len(s) : s[k] = x
    THEN CHOOSE k \in 1..Len(s) : s[k] = x /\ \A j \in 1..(k - 1) : s[j] # x
    ELSE 0

\* A faulty removal: the last element is moved into the place of the one that
\* is removed
SpliceSwapLast(s, k) ==
    [j \in 1..(Len(s) - 1) |-> IF j = k THEN s[Len(s)] ELSE s[j]]

\* A faulty splice: Array.prototype.splice(index) without the count, which
\* removes everything from index on
SpliceToEnd(s, k) == SubSeq(s, 1, k - 1)

\* Array.prototype.splice(index, 1)
Splice(s, k) == [j \in 1..(Len(s) - 1) |-> IF j < k THEN s[j] ELSE s[j + 1]]

----------------------------------------------------------------------------
\* SoundInstance, as the Sound sees it: create/play, the paused flag, stop(),
\* the natural end, destroy().

\* SoundInstance.create(sound) alone: an instance handed out and not played
Created == [NoInstance EXCEPT !.state = "Created"]

\* SoundInstance.create(sound) followed by instance.play(start, end, speed,
\* loop, ...): a fresh, playing instance carrying the options of the play() call
CreatePlaying(o) == [state |-> "Playing", loop |-> o.loop, complete |-> o.complete,
                     start |-> o.start, end |-> o.end, speed |-> o.speed,
                     destroys |-> 0]

\* An instance that has not reached its terminal state
Live(r) == r.state \in {"Playing", "Paused"}

\* instance.destroy(): the terminal state; the instance lets go of what it played
DestroyInstance(r) ==
    [NoInstance EXCEPT !.state = "Destroyed", !.destroys = r.destroys + 1]

\* instance.paused = b
SetPaused(r, b) ==
    IF Live(r) THEN [r EXCEPT !.state = IF b THEN "Paused" ELSE "Playing"] ELSE r

\* The id SoundInstance.create hands out next
NewId == Cardinality({i \in DOMAIN inst : inst[i].state # "None"}) + 1

----------------------------------------------------------------------------
\* The private helpers of Sound, as functions of the part of the state they
\* touch: st = [instances, inst, isPlaying]

AssetState == [instances |-> instances, inst |-> inst, isPlaying |-> isPlaying]

\* get isPlayable(): this.isLoaded && !!this._source && !!this._source.buffer
isPlayable == isLoaded /\ ~destroyed /\ buffer

\* A faulty _onComplete: the instance is removed and destroyed but isPlaying is
\* not brought up to date
OnCompleteStaleFlag(st, id) ==
    LET index == IndexOf(st.instances, id)
        left == IF index > 0 THEN Splice(st.instances, index) ELSE st.instances
    IN  IF destroyed
        THEN [st EXCEPT !.inst[id] = DestroyInstance(@)]
        ELSE [st EXCEPT !.instances = left, !.inst[id] = DestroyInstance(@)]

\* _onComplete(instance) once destroy() has set this._instances to null: the
\* array is passed over, instance.destroy() is called
OnCompleteDestroyed(st, id) == [st EXCEPT !.inst[id] = DestroyInstance(@)]

\* _onComplete(instance)
OnComplete(st, id) ==
    LET index == IndexOf(st.instances, id)
        left == IF index > 0 THEN Splice(st.instances, index) ELSE st.instances
    IN  IF destroyed
        THEN OnCompleteDestroyed(st, id)
        ELSE [instances |-> left,
              inst |-> [st.inst EXCEPT ![id] = DestroyInstance(@)],
              isPlaying |-> Len(left) > 0]

\* instance.stop(): a live instance emits "stop" once, which the Sound answers
\* with _onComplete(instance); a finished instance does nothing
StopInstance(st, id) ==
    IF Live(st.inst[id])
    THEN OnComplete(st, id)
    ELSE st

\* The natural end of an instance: it emits "end" once; the handler of play()
\* calls options.complete, then _onComplete(instance)
EndInstance(st, id) == OnComplete(st, id)

\* A faulty _removeInstances: the array is not emptied
TruncateForgotten(s) == s

\* this._instances.length = 0 at the end of _removeInstances
Truncate(s) == << >>

\* _removeInstances(): destroy every instance, last to first, then empty the array
RECURSIVE DestroyFrom(_, _, _)
DestroyFrom(t, s, k) ==
    IF k = 0 THEN t
    ELSE DestroyFrom([t EXCEPT ![s[k]] = DestroyInstance(@)], s, k - 1)

RemoveInstances(st) ==
    [st EXCEPT !.inst = DestroyFrom(st.inst, st.instances, Len(st.instances)),
               !.instances = Truncate(st.instances)]

\* A faulty push: unshift, the new instance goes to the front
PushFront(s, id) == <<id>> \o s

\* this._instances.push(instance)
Push(s, id) == Append(s, id)

\* A faulty play(): the new instance is played but not pushed
SpawnNotPushed(st, o) ==
    LET base == IF singleInstance THEN RemoveInstances(st) ELSE st
    IN  [instances |-> base.instances,
         inst |-> [base.inst EXCEPT ![NewId] = CreatePlaying(o)],
         isPlaying |-> TRUE]

\* play() on a loaded Sound, lines 637-666: _removeInstances() under
\* singleInstance, then create, push, isPlaying = true, instance.play(...)
Spawn(st, o) ==
    LET base == IF singleInstance THEN RemoveInstances(st) ELSE st
    IN  [instances |-> Push(base.instances, NewId),
         inst |-> [base.inst EXCEPT ![NewId] = CreatePlaying(o)],
         isPlaying |-> TRUE]

\* A faulty loop of stop(): from the first index up, for (i = 0; i < length; i++)
RECURSIVE StopFrom(_, _)
StopFrom(st, k) ==
    IF k > Len(st.instances) THEN st
    ELSE StopFrom(StopInstance(st, st.instances[k]), k + 1)

StopLoopForward(st, i) == StopFrom(st, 1)

\* The loop of stop(): this._instances[i].stop() for i = length - 1 down to 0
RECURSIVE StopLoop(_, _)
StopLoop(st, i) ==
    IF i = 0 THEN st
    ELSE StopLoop(IF i <= Len(st.instances)
                  THEN StopInstance(st, st.instances[i]) ELSE st, i - 1)

\* A faulty loop of pause() and resume(): i > 0 for i >= 0, the first instance
\* is not reached
RECURSIVE PausedLoopSkipsFirst(_, _, _)
PausedLoopSkipsFirst(st, i, b) ==
    IF i <= 1 THEN st
    ELSE PausedLoopSkipsFirst([st EXCEPT !.inst[st.instances[i]] = SetPaused(@, b)],
                              i - 1, b)

\* The loop of pause() and resume(): this._instances[i].paused = b, last to first
RECURSIVE PausedLoop(_, _, _)
PausedLoop(st, i, b) ==
    IF i = 0 THEN st
    ELSE PausedLoop([st EXCEPT !.inst[st.instances[i]] = SetPaused(@, b)], i - 1, b)

----------------------------------------------------------------------------
\* Preloading.  One record per _beginPreload invocation:
\*   cb        the callback it was given: "none", "loaded" (the constructor's
\*             options.loaded) or "promise" (the closure of play(), lines 619-633)
\*   phase     "fetch" (XHR or fs.readFile under way), "decode" (decodeAudioData
\*             under way) or "done"
\*   decodes   decode attempts issued; results: decode results delivered
\*   cbOk, cbErr   calls of the callback without and with an error
\*   resolves, rejects   calls of the promise's resolve and reject
\*   value     the instance id resolve, or the loaded callback, was given, 0
\*             for undefined
\*   threw     the completion handler ended in a TypeError
\*   opts      the options the settling closure of play() holds, <<o>>; <<>> for
\*             a load the constructor began, and once the invocation is done,
\*             when nothing refers to the closure any more

NewLoad(cb) == [cb |-> cb, phase |-> "done", decodes |-> 0, results |-> 0,
                cbOk |-> 0, cbErr |-> 0, resolves |-> 0, rejects |-> 0,
                value |-> 0, threw |-> FALSE, opts |-> << >>]

\* The closure of a finished invocation is out of reach, and its options with it
Release(r) == IF r.phase = "done" THEN [r EXCEPT !.opts = << >>] ELSE r

\* A faulty error branch of _decode: the error is not handed to the callback
CallbackErrSwallowed(r) == r

\* A faulty error branch: the callback is called as on success, callback(null, this)
CallbackErrAsOk(r) ==
    IF r.cb = "none" THEN r
    ELSE IF r.cb = "loaded" THEN [r EXCEPT !.cbOk = @ + 1]
    ELSE [r EXCEPT !.cbOk = @ + 1, !.resolves = @ + 1]

\* callback(err): the constructor's loaded callback, or the closure of play()
\* that rejects
CallbackErr(r) ==
    IF r.cb = "none" THEN r
    ELSE IF r.cb = "loaded" THEN [r EXCEPT !.cbErr = @ + 1]
    ELSE [r EXCEPT !.cbErr = @ + 1, !.rejects = @ + 1]

\* A faulty success branch: callback(null, this), the instance is not passed on
CallbackOkNoInstance(r, id) ==
    IF r.cb = "none" THEN r
    ELSE IF r.cb = "loaded" THEN [r EXCEPT !.cbOk = @ + 1]
    ELSE [r EXCEPT !.cbOk = @ + 1, !.resolves = @ + 1]

\* callback(null, this, instance): id is the instance, 0 when undefined
CallbackOk(r, id) ==
    IF r.cb = "none" THEN r
    ELSE IF r.cb = "loaded" THEN [r EXCEPT !.cbOk = @ + 1, !.value = id]
    ELSE [r EXCEPT !.cbOk = @ + 1, !.resolves = @ + 1,
                   !.value = IF r.resolves + r.rejects = 0 THEN id ELSE @]

\* The call of decodeAudioData is a TypeError: destroy() has set the Sound's
\* _context to null (line 846), or the context's destroy() has set its
\* _offlineCtx to null (part_002 lines 55 and 173)
DecodeThrows == destroyed \/ ctx.state = "closed"

\* _decode(arrayBuffer, callback) up to the call of decodeAudioData
IssueDecode(r) ==
    IF DecodeThrows THEN [r EXCEPT !.phase = "done", !.threw = TRUE]
    ELSE [r EXCEPT !.phase = "decode", !.decodes = @ + 1]

\* A faulty _beginPreload: without the test of this.srcBuffer, the missing
\* bytes are handed to _decode
BeginPreloadNoSourceCheck(cb) ==
    IF src # "none" THEN [NewLoad(cb) EXCEPT !.phase = "fetch"]
    ELSE IssueDecode(NewLoad(cb))

\* _beginPreload(callback): the record of the invocation as the call returns
BeginPreload(cb) ==
    IF src # "none" THEN [NewLoad(cb) EXCEPT !.phase = "fetch"]
    ELSE IF srcBuffer THEN IssueDecode(NewLoad(cb))
    ELSE CallbackErr(NewLoad(cb))

\* A faulty decode callback: it plays without looking at autoPlay
ShouldAutoPlayAlways == TRUE

\* if (this.autoPlay) in the decode callback
ShouldAutoPlay == autoPlay

\* What the last call returned: kind is "instance" or "promise" (play, with the
\* id of the instance or of the promise), "stopped" (instance.stop() stopped the
\* live instance id), "throw" (an exception left the call or handler),
\* "complete" (the handler called the complete callback of instance id) or "none"
Returned(kind, id) == [kind |-> kind, id |-> id]

\* A faulty "end" handler: _onComplete(instance) first, and the instance that
\* was destroyed has let go of its callback
CompleteCallAfterReap(st, id) == Returned("none", 0)

\* The first statement of the "end" handler of play(), lines 648-651:
\* if (options.complete) options.complete(this)
CompleteCall(st, id) ==
    IF st.inst[id].complete THEN Returned("complete", id) ELSE Returned("none", 0)

----------------------------------------------------------------------------
\* Sprites: the table this._sprites, and what play() makes of its options

\* No sprite under a name.  destroys counts the destroy() calls on the sprite
\* that the name held last
NoSprite == [set |-> FALSE, start |-> 0, end |-> 0, speed |-> 0, destroys |-> 0]

NoSprites == [n \in SpriteNames |-> NoSprite]

\* The sprite data callers pass for a name: {start, end, speed?}
SpriteData == [x |-> [start |-> 1, end |-> 2, speed |-> 0],
               y |-> [start |-> 2, end |-> 3, speed |-> 1]]

\* new SoundSprite(this, data): start, end and speed as given
NewSprite(data) == [set |-> TRUE, start |-> data.start, end |-> data.end,
                    speed |-> data.speed, destroys |-> 0]

\* sprite.destroy() followed by delete this._sprites[alias]
DestroySprite(s) == [NoSprite EXCEPT !.destroys = s.destroys + 1]

\* addSprites(alias, data), lines 481-487: console.assert logs when the name is
\* taken (it does not throw where an AudioContext exists), then the new sprite
\* is stored under the name
AddSprite(table, n, data) == [table EXCEPT ![n] = NewSprite(data)]

\* The argument of removeSprites() without an alias
NoAlias == ""

\* A faulty removeSprites: the sprite is detached but not destroyed
RemoveSpritesNoDestroy(table, alias) ==
    [n \in SpriteNames |->
        IF (alias = NoAlias \/ n = alias) /\ table[n].set
        THEN NoSprite ELSE table[n]]

\* removeSprites(alias?): without an alias every name of the table is removed;
\* with one, its sprite, when there is one, is destroyed and deleted
RemoveSprites(table, alias) ==
    [n \in SpriteNames |->
        IF (alias = NoAlias \/ n = alias) /\ table[n].set
        THEN DestroySprite(table[n]) ELSE table[n]]

\* The maps callers pass to addSprites(source): a sprite data for each name of
\* a set of names
SpriteMaps ==
    UNION {[names -> {SpriteData[m] : m \in SpriteNames}] :
              names \in SUBSET SpriteNames}

\* addSprites(source) with a map, lines 473-480: addSprites(alias,
\* source[alias]) for every alias of the map
AddSpritesMap(table, source) ==
    [n \in SpriteNames |-> IF n \in DOMAIN source THEN AddSprite(table, n, source[n])[n]
                                                 ELSE table[n]]

\* addSprites(map) on the empty table of the constructor
AddSprites(table, names) ==
    [n \in SpriteNames |-> IF n \in names THEN NewSprite(SpriteData[n])
                                          ELSE table[n]]

\* play(), lines 593-609: a sprite's start, end and speed are written over the
\* options and the sprite name is deleted; then a deprecated offset, when it is
\* there, is written over start
PlayOptions(o) ==
    LET p == IF o.sprite # ""
             THEN [o EXCEPT !.start = sprites[o.sprite].start,
                            !.end = sprites[o.sprite].end,
                            !.speed = sprites[o.sprite].speed,
                            !.sprite = ""]
             ELSE o
    IN  IF p.offset # 0 THEN [p EXCEPT !.start = p.offset] ELSE p

----------------------------------------------------------------------------
\* SoundContext: the master gain, mute and pause.  A context is a record
\*   volume, muted, paused   _volume, _muted, _paused
\*   gain      _gainNode.gain.value
\*   state     _ctx.state, "running" or "suspended"; "closed" once destroy()
\*             has closed the AudioContext and set _ctx, _gainNode to null
\*   pending   the suspend() and resume() calls of _ctx that have not settled

\* destroy() has run: _ctx and _gainNode are null
CtxDestroyed(c) == c.state = "closed"

\* A faulty set volume: the gain follows the volume on a muted context too
CtxSetVolumeAudible(c, v) ==
    [c EXCEPT !.volume = v, !.gain = IF ~CtxDestroyed(c) THEN v ELSE @]

\* set volume(volume): _volume is assigned, then the gain if not muted, which
\* is a TypeError on a destroyed context
CtxSetVolume(c, v) ==
    [c EXCEPT !.volume = v, !.gain = IF ~c.muted /\ ~CtxDestroyed(c) THEN v ELSE @]

\* A faulty set muted: the stored volume is zeroed along with the gain
CtxSetMutedZeroesVolume(c, b) ==
    [c EXCEPT !.muted = b,
              !.gain = IF CtxDestroyed(c) THEN @ ELSE IF b THEN 0 ELSE c.volume,
              !.volume = IF b THEN 0 ELSE @]

\* set muted(muted): _muted is assigned, then the gain, which is a TypeError
\* on a destroyed context
CtxSetMuted(c, b) ==
    [c EXCEPT !.muted = b,
              !.gain = IF CtxDestroyed(c) THEN @ ELSE IF b THEN 0 ELSE c.volume]

\* toggleMute(): this.muted = !this.muted
CtxToggleMute(c) == CtxSetMuted(c, ~c.muted)

\* set paused(paused): suspend() on a running clock, resume() on a suspended
\* one, then the flag; on a destroyed context reading _ctx.state is a
\* TypeError, before the flag is assigned
CtxSetPaused(c, b) ==
    IF CtxDestroyed(c) THEN c
    ELSE [c EXCEPT !.pending = IF b /\ c.state = "running"
                               THEN Append(@, "suspend")
                               ELSE IF ~b /\ c.state = "suspended"
                                    THEN Append(@, "resume")
                                    ELSE @,
                   !.paused = b]

\* The AudioContext settles its oldest suspend() or resume()
CtxSettle(c) ==
    [c EXCEPT !.state = IF Head(c.pending) = "suspend" THEN "suspended"
                                                       ELSE "running",
              !.pending = Tail(@)]

\* destroy(): the AudioContext is closed, which leaves its unsettled suspend()
\* and resume() without effect, the nodes are disconnected and the references
\* set to null; on a destroyed context reading ctx.close is a TypeError
CtxDestroy(c) ==
    IF CtxDestroyed(c) THEN c
    ELSE [c EXCEPT !.state = "closed", !.pending = << >>]

\* new SoundContext(): the gain node is created with gain 1, then
\* this.volume = 1, this.muted = false, this.paused = false (lines 40-42); the
\* clock of a new AudioContext is running, or suspended until a user gesture
NewContext(clock) ==
    LET raw == [volume |-> 0, muted |-> FALSE, paused |-> FALSE, gain |-> MaxVol,
                state |-> clock, pending |-> << >>]
    IN  CtxSetPaused(CtxSetMuted(CtxSetVolume(raw, MaxVol), FALSE), FALSE)

----------------------------------------------------------------------------
\* The library: a registry of Sounds by alias.  A Sound of the library is a
\* record of the fields the registry's operations reach:
\*   isLoaded, destroyed, isPlaying, instances, inst   as for the Sound above

Aliases == {"a", "b"}

\* The Sounds the library has constructed
SoundIds == 1..Len(made)

NoSounds == [alias \in Aliases |-> 0]

\* new Sound(context, {srcBuffer, preload: true}): nothing active, the decode
\* under way
NewSound == [isLoaded |-> FALSE, destroyed |-> FALSE, isPlaying |-> FALSE,
             instances |-> << >>, inst |-> [i \in InstIds |-> NoInstance]]

\* The id of the Sound the library constructs next
NextSound == Len(made) + 1

\* A faulty destroy(): the active instances are left as they are
SoundDestroyKeepsInstances(a) == [a EXCEPT !.destroyed = TRUE]

\* A faulty destroy(): nothing is torn down
SoundDestroyNothing(a) == a

\* destroy() of a Sound of the library: _removeInstances(), _instances = null;
\* isPlaying is not assigned
SoundDestroy(a) == [RemoveInstances(a) EXCEPT !.destroyed = TRUE]

\* play() of a loaded Sound of the library: create, push, isPlaying = true
SoundPlay(a) ==
    LET id == Cardinality({i \in InstIds : a.inst[i].state # "None"}) + 1
    IN  [a EXCEPT !.instances = Push(@, id),
                  !.inst[id] = CreatePlaying(DefaultOptions),
                  !.isPlaying = TRUE]

\* library.exists(alias)
Exists(alias) == sounds[alias] # 0

\* The Sounds of m with the Sounds of the set ids destroyed
DestroyAll(m, ids) ==
    [k \in 1..Len(m) |-> IF k \in ids THEN SoundDestroy(m[k]) ELSE m[k]]

LibraryInit ==
    /\ sounds = NoSounds
    /\ made = << >>

----------------------------------------------------------------------------
\* The state after the constructor

\* The fields every construction sets the same way, and the preload it starts;
\* ids are the instances the Sound may spawn
SoundInitOn(ids) ==
    /\ src \in {"none", "url", "path"}
    /\ srcBuffer \in BOOLEAN
    /\ autoPlay \in BOOLEAN
    /\ \E p \in BOOLEAN : preload = (p \/ autoPlay)
    /\ singleInstance \in BOOLEAN
    /\ block = FALSE
    /\ isLoaded = FALSE
    /\ isPlaying = FALSE
    /\ buffer = FALSE
    /\ destroyed = FALSE
    /\ autoPlayOptions \in {<< >>, <<[DefaultOptions EXCEPT !.complete = TRUE]>>}
    /\ instances = << >>
    /\ inst = [i \in ids |-> NoInstance]
    /\ \E cb \in {"none", "loaded"} :
          loads = IF preload THEN <<BeginPreload(cb)>> ELSE << >>
    /\ last = Returned("none", 0)
    /\ teardown = << >>

SoundInit == SoundInitOn(InstIds)

\* new Sound(context, options) with any source, preload and autoPlay, the
\* default volume and no sprites, on a context as it was created
Init ==
    /\ ctx = NewContext("running")
    /\ SoundInit
    /\ LibraryInit
    /\ volume = MaxVol
    /\ gain = MaxVol
    /\ sprites = NoSprites

\* new Sound(context, {srcBuffer, preload: true, loaded}) on a new context
InitMix ==
    /\ ctx \in {NewContext(clock) : clock \in {"running", "suspended"}}
    /\ SoundInit
    /\ LibraryInit
    /\ src = "none" /\ srcBuffer
    /\ preload /\ ~autoPlay /\ ~singleInstance
    /\ autoPlayOptions = << >>
    /\ loads[1].cb = "loaded"
    /\ volume = MaxVol
    /\ gain = MaxVol
    /\ sprites = NoSprites

\* new Sound(context, {srcBuffer, preload, sprites}) with the sprite x or the
\* sprites x and y
InitSprite ==
    /\ ctx = NewContext("running")
    /\ SoundInit
    /\ LibraryInit
    /\ src = "none" /\ srcBuffer
    /\ ~autoPlay /\ ~singleInstance
    /\ autoPlayOptions = << >>
    /\ preload => loads[1].cb = "none"
    /\ volume = MaxVol
    /\ gain = MaxVol
    /\ sprites \in {AddSprites(NoSprites, names) : names \in {{"x"}, {"x", "y"}}}

\* new Sound(context, {srcBuffer, preload: true, autoPlay, singleInstance,
\* complete, loaded}), with and without the complete callback
InitEnd ==
    /\ ctx = NewContext("running")
    /\ SoundInit
    /\ LibraryInit
    /\ src = "none" /\ srcBuffer
    /\ preload
    /\ loads[1].cb = "loaded"
    /\ volume = MaxVol
    /\ gain = MaxVol
    /\ sprites = NoSprites

\* The same, the complete callback always given
InitComplete ==
    /\ InitEnd
    /\ autoPlayOptions = <<[DefaultOptions EXCEPT !.complete = TRUE]>>

\* A library as it is created, before any add; the Sound of the variables
\* above stays as new Sound(context, {srcBuffer}) made it
InitLib ==
    /\ ctx = NewContext("running")
    /\ SoundInit
    /\ LibraryInit
    /\ src = "none" /\ srcBuffer
    /\ ~autoPlay /\ ~preload /\ ~singleInstance
    /\ autoPlayOptions = << >>
    /\ volume = MaxVol
    /\ gain = MaxVol
    /\ sprites = NoSprites

----------------------------------------------------------------------------
\* The public methods

SetAssetState(st) ==
    /\ instances' = st.instances
    /\ inst' = st.inst
    /\ isPlaying' = st.isPlaying

\* play(options) before the load: the promise executor sets autoPlay and
\* _autoPlayOptions and calls _beginPreload with the settling closure
PlayNotLoaded(o) ==
    /\ ~isLoaded
    /\ Len(loads) < MaxLoads
    /\ autoPlay' = TRUE
    /\ autoPlayOptions' = <<o>>
    /\ loads' = Append(loads, Release([BeginPreload("promise") EXCEPT !.opts = <<o>>]))
    /\ last' = Returned("promise", Len(loads) + 1)
    /\ UNCHANGED <<src, srcBuffer, isLoaded, isPlaying, singleInstance, block,
                   preload, buffer, destroyed, instances, inst>>
    /\ UNCHANGED restVars

\* play(options) on a loaded Sound: spawn and return the instance
PlayLoaded(o) ==
    /\ isLoaded
    /\ ~destroyed
    /\ NewId \in DOMAIN inst
    /\ SetAssetState(Spawn(AssetState, o))
    /\ last' = Returned("instance", NewId)
    /\ UNCHANGED <<src, srcBuffer, isLoaded, autoPlay, singleInstance, block,
                   preload, autoPlayOptions, buffer, destroyed, loads>>
    /\ UNCHANGED restVars

\* play(options) on a loaded and destroyed Sound: this._instances is null.
\* With singleInstance the TypeError leaves _removeInstances, before anything
\* is assigned; without it SoundInstance.create has handed out an instance
\* when this._instances.push throws
PlayDestroyed(o) ==
    /\ isLoaded
    /\ destroyed
    /\ IF singleInstance
       THEN UNCHANGED inst
       ELSE /\ NewId \in DOMAIN inst
            /\ inst' = [inst EXCEPT ![NewId] = Created]
    /\ last' = Returned("throw", 0)
    /\ UNCHANGED <<src, srcBuffer, isLoaded, isPlaying, autoPlay, singleInstance,
                   block, preload, autoPlayOptions, buffer, destroyed, instances,
                   loads>>
    /\ UNCHANGED restVars

Play(o) == PlayNotLoaded(o) \/ PlayLoaded(o) \/ PlayDestroyed(o)

\* stop() without a playable buffer: the pending autoplay is cancelled
StopNotPlayable ==
    /\ ~isPlayable
    /\ autoPlay' = FALSE
    /\ autoPlayOptions' = << >>
    /\ last' = Returned("none", 0)
    /\ UNCHANGED <<src, srcBuffer, isLoaded, isPlaying, singleInstance, block,
                   preload, buffer, destroyed, instances, inst, loads>>
    /\ UNCHANGED restVars

\* stop() with a playable buffer: isPlaying = false, then every instance is
\* stopped, last to first
StopPlayable ==
    /\ isPlayable
    /\ SetAssetState(StopLoop([AssetState EXCEPT !.isPlaying = FALSE],
                              Len(instances)))
    /\ last' = Returned("none", 0)
    /\ UNCHANGED <<src, srcBuffer, isLoaded, autoPlay, singleInstance, block,
                   preload, autoPlayOptions, buffer, destroyed, loads>>
    /\ UNCHANGED restVars

Stop == StopNotPlayable \/ StopPlayable

\* A faulty pause(): the instances are paused and the context along with them
PauseThroughContext ==
    /\ ~destroyed
    /\ SetAssetState([PausedLoop(AssetState, Len(instances), TRUE)
                         EXCEPT !.isPlaying = FALSE])
    /\ ctx' = CtxSetPaused(ctx, TRUE)
    /\ last' = Returned("none", 0)
    /\ UNCHANGED <<src, srcBuffer, isLoaded, autoPlay, singleInstance, block,
                   preload, autoPlayOptions, buffer, destroyed, loads, teardown,
                   volume, gain, sprites, libVars>>

\* pause(): every instance paused, isPlaying = false.  On a destroyed Sound
\* this._instances.length is a TypeError.
Pause ==
    /\ IF destroyed
       THEN /\ last' = Returned("throw", 0)
            /\ UNCHANGED <<instances, inst, isPlaying>>
       ELSE /\ SetAssetState([PausedLoop(AssetState, Len(instances), TRUE)
                                EXCEPT !.isPlaying = FALSE])
            /\ last' = Returned("none", 0)
    /\ UNCHANGED <<src, srcBuffer, isLoaded, autoPlay, singleInstance, block,
                   preload, autoPlayOptions, buffer, destroyed, loads>>
    /\ UNCHANGED restVars

\* resume(): every instance resumed, isPlaying = this._instances.length > 0
Resume ==
    /\ IF destroyed
       THEN /\ last' = Returned("throw", 0)
            /\ UNCHANGED <<instances, inst, isPlaying>>
       ELSE /\ SetAssetState([PausedLoop(AssetState, Len(instances), FALSE)
                                EXCEPT !.isPlaying = Len(instances) > 0])
            /\ last' = Returned("none", 0)
    /\ UNCHANGED <<src, srcBuffer, isLoaded, autoPlay, singleInstance, block,
                   preload, autoPlayOptions, buffer, destroyed, loads>>
    /\ UNCHANGED restVars

\* The statements of destroy() in the order of lines 294-305:
\* this._nodes.destroy(), this.removeSprites(), this._removeInstances()
DestroySteps == <<"nodes", "sprites", "instances">>

\* destroy(): _nodes, _context, _source and srcBuffer are nulled, the sprites
\* are removed, then _removeInstances(), then _instances = null; isPlaying is
\* not assigned.
\* A second destroy() is a TypeError at this._nodes.destroy().
Destroy ==
    /\ IF destroyed
       THEN /\ last' = Returned("throw", 0)
            /\ UNCHANGED <<srcBuffer, destroyed, instances, inst, isPlaying,
                           teardown, sprites>>
       ELSE /\ destroyed' = TRUE
            /\ teardown' = DestroySteps
            /\ sprites' = RemoveSprites(sprites, NoAlias)
            /\ srcBuffer' = FALSE
            /\ SetAssetState(RemoveInstances(AssetState))
            /\ last' = Returned("none", 0)
    /\ UNCHANGED <<src, isLoaded, autoPlay, singleInstance, block, preload,
                   autoPlayOptions, buffer, loads, volume, gain, ctx, libVars>>

\* sound.singleInstance = b
SetSingleInstance(b) ==
    /\ singleInstance # b
    /\ singleInstance' = b
    /\ last' = Returned("none", 0)
    /\ UNCHANGED <<src, srcBuffer, isLoaded, isPlaying, autoPlay, block, preload,
                   autoPlayOptions, buffer, destroyed, instances, inst, loads>>
    /\ UNCHANGED restVars

\* sound.block = b
SetBlock(b) ==
    /\ block # b
    /\ block' = b
    /\ last' = Returned("none", 0)
    /\ UNCHANGED <<src, srcBuffer, isLoaded, isPlaying, autoPlay, singleInstance,
                   preload, autoPlayOptions, buffer, destroyed, instances, inst,
                   loads>>
    /\ UNCHANGED restVars

\* sound.buffer = b, an AudioBuffer (TRUE) or null (FALSE): this._source.buffer
\* is assigned, a TypeError once destroy() has set _source to null
SetBuffer(b) ==
    /\ buffer' = IF destroyed THEN buffer ELSE b
    /\ last' = IF destroyed THEN Returned("throw", 0) ELSE Returned("none", 0)
    /\ UNCHANGED <<src, srcBuffer, isLoaded, isPlaying, autoPlay, singleInstance,
                   block, preload, autoPlayOptions, destroyed, instances, inst,
                   loads>>
    /\ UNCHANGED restVars

\* A faulty play(): a sprite name that is not in the table is passed over and
\* the whole sound is played
PlaySpriteUnchecked(o) ==
    Play(PlayOptions([o EXCEPT !.sprite = IF @ # "" /\ ~sprites[@].set
                                          THEN "" ELSE @]))

\* play(options) from its first line: a named sprite that is not in the table,
\* or any named sprite once destroy() has nulled _sprites, is a TypeError at
\* sprite.start; otherwise the options of lines 593-609 are played
PlaySprite(o) ==
    IF o.sprite # "" /\ (destroyed \/ ~sprites[o.sprite].set)
    THEN /\ last' = Returned("throw", 0)
         /\ UNCHANGED <<soundVars, restVars>>
    ELSE Play(PlayOptions(o))

\* sound.addSprites(n, data); this._sprites is null on a destroyed Sound, a
\* TypeError before anything is assigned
AddSpritesCall(n, data) ==
    /\ IF destroyed
       THEN /\ last' = Returned("throw", 0)
            /\ UNCHANGED sprites
       ELSE /\ sprites' = AddSprite(sprites, n, data)
            /\ last' = Returned("none", 0)
    /\ UNCHANGED <<soundVars, teardown, volume, gain, ctx, libVars>>

\* sound.addSprites(source) with a map; on a destroyed Sound the first alias
\* of the map is a TypeError at this._sprites[alias], and an empty map loops
\* over nothing
AddSpritesMapCall(source) ==
    /\ IF destroyed /\ DOMAIN source # {}
       THEN /\ last' = Returned("throw", 0)
            /\ UNCHANGED sprites
       ELSE /\ sprites' = AddSpritesMap(sprites, source)
            /\ last' = Returned("none", 0)
    /\ UNCHANGED <<soundVars, teardown, volume, gain, ctx, libVars>>

\* sound.removeSprites(alias) and sound.removeSprites(); on a destroyed Sound
\* the first is a TypeError at this._sprites[alias], the second loops over
\* nothing
RemoveSpritesCall(alias) ==
    /\ IF destroyed
       THEN /\ last' = IF alias = NoAlias THEN Returned("none", 0)
                                           ELSE Returned("throw", 0)
            /\ UNCHANGED sprites
       ELSE /\ sprites' = RemoveSprites(sprites, alias)
            /\ last' = Returned("none", 0)
    /\ UNCHANGED <<soundVars, teardown, volume, gain, ctx, libVars>>

\* A faulty volume setter: the gain is set, _volume is not stored
VolumeSetterGainOnly(v) == [volume |-> volume, gain |-> v]

\* set volume(volume): this._volume = this._nodes.gain.gain.value = volume
VolumeSetter(v) == [volume |-> v, gain |-> v]

\* sound.volume = v; this._nodes is null on a destroyed Sound, a TypeError
\* before anything is assigned
SetSoundVolume(v) ==
    /\ IF destroyed
       THEN /\ last' = Returned("throw", 0)
            /\ UNCHANGED <<volume, gain>>
       ELSE /\ volume' = VolumeSetter(v).volume
            /\ gain' = VolumeSetter(v).gain
            /\ last' = Returned("none", 0)
    /\ UNCHANGED <<soundVars, teardown, sprites, ctx, libVars>>

\* library.volume(alias, v): the Sound under the alias gets volume v and its
\* volume is read back and returned
LibraryVolume(v) ==
    /\ IF destroyed
       THEN /\ last' = Returned("throw", 0)
            /\ UNCHANGED <<volume, gain>>
       ELSE /\ volume' = VolumeSetter(v).volume
            /\ gain' = VolumeSetter(v).gain
            /\ last' = Returned("value", volume')
    /\ UNCHANGED <<soundVars, teardown, sprites, ctx, libVars>>

\* library.volume(alias): the volume of the Sound under the alias is returned
LibraryVolumeGet ==
    /\ last' = Returned("value", volume)
    /\ UNCHANGED <<soundVars, restVars>>

----------------------------------------------------------------------------
\* The methods of the SoundContext

\* context.volume = v
ContextVolume(v) ==
    /\ ctx' = CtxSetVolume(ctx, v)
    /\ last' = IF CtxDestroyed(ctx) /\ ~ctx.muted THEN Returned("throw", 0)
                                                  ELSE Returned("none", 0)
    /\ UNCHANGED <<soundVars, teardown, volume, gain, sprites, libVars>>

\* context.muted = b
ContextMuted(b) ==
    /\ ctx' = CtxSetMuted(ctx, b)
    /\ last' = IF CtxDestroyed(ctx) THEN Returned("throw", 0)
                                    ELSE Returned("none", 0)
    /\ UNCHANGED <<soundVars, teardown, volume, gain, sprites, libVars>>

\* context.toggleMute()
ContextToggleMute ==
    /\ ctx' = CtxToggleMute(ctx)
    /\ last' = IF CtxDestroyed(ctx) THEN Returned("throw", 0)
                                    ELSE Returned("none", 0)
    /\ UNCHANGED <<soundVars, teardown, volume, gain, sprites, libVars>>

\* context.paused = b
ContextPaused(b) ==
    /\ Len(CtxSetPaused(ctx, b).pending) <= MaxPending
    /\ ctx' = CtxSetPaused(ctx, b)
    /\ last' = IF CtxDestroyed(ctx) THEN Returned("throw", 0)
                                    ELSE Returned("none", 0)
    /\ UNCHANGED <<soundVars, teardown, volume, gain, sprites, libVars>>

\* context.destroy()
ContextDestroy ==
    /\ ctx' = CtxDestroy(ctx)
    /\ last' = IF CtxDestroyed(ctx) THEN Returned("throw", 0)
                                    ELSE Returned("none", 0)
    /\ UNCHANGED <<soundVars, teardown, volume, gain, sprites, libVars>>

\* The promise of the oldest unsettled suspend() or resume() settles
ClockSettles ==
    /\ ctx.pending # << >>
    /\ ctx' = CtxSettle(ctx)
    /\ last' = Returned("none", 0)
    /\ UNCHANGED <<soundVars, teardown, volume, gain, sprites, libVars>>

----------------------------------------------------------------------------
\* The methods of the library

\* library.add(alias, {srcBuffer, preload: true}): a Sound registered under the
\* alias is destroyed first, then the new Sound takes the alias and is returned
LibraryAdd(alias) ==
    /\ NextSound <= MaxSounds
    /\ made' = Append(DestroyAll(made, {sounds[alias]} \ {0}), NewSound)
    /\ sounds' = [sounds EXCEPT ![alias] = NextSound]
    /\ last' = Returned("sound", NextSound)
    /\ UNCHANGED <<soundVars, teardown, volume, gain, sprites, ctx>>

\* library.remove(alias): the Sound is destroyed and the alias deleted; an alias
\* that is not registered is an error signalled to the caller
LibraryRemove(alias) ==
    /\ IF Exists(alias)
       THEN /\ made' = DestroyAll(made, {sounds[alias]})
            /\ sounds' = [sounds EXCEPT ![alias] = 0]
            /\ last' = Returned("removed", 1)
       ELSE /\ last' = Returned("throw", 0)
            /\ UNCHANGED libVars
    /\ UNCHANGED <<soundVars, teardown, volume, gain, sprites, ctx>>

\* library.removeAll(): every registered Sound is destroyed and the registry
\* is cleared; the count of Sounds it destroyed is noted
LibraryRemoveAll ==
    /\ made' = DestroyAll(made, {sounds[alias] : alias \in Aliases} \ {0})
    /\ sounds' = NoSounds
    /\ last' = Returned("removedAll",
                        Cardinality({sounds[alias] : alias \in Aliases} \ {0}))
    /\ UNCHANGED <<soundVars, teardown, volume, gain, sprites, ctx>>

\* library.play(alias) on a registered, loaded Sound: its play()
LibraryPlay(alias) ==
    /\ Exists(alias)
    /\ made[sounds[alias]].isLoaded
    /\ Len(made[sounds[alias]].instances) < MaxInst
    /\ made' = [made EXCEPT ![sounds[alias]] = SoundPlay(@)]
    /\ last' = Returned("instance", Len(made[sounds[alias]].instances) + 1)
    /\ UNCHANGED <<soundVars, teardown, volume, gain, sprites, ctx, sounds>>

\* The decode of a Sound of the library succeeds
LibraryLoaded(k) ==
    /\ ~made[k].isLoaded
    /\ made' = [made EXCEPT ![k].isLoaded = TRUE]
    /\ last' = IF made[k].destroyed THEN Returned("throw", 0)
                                    ELSE Returned("none", 0)
    /\ UNCHANGED <<soundVars, teardown, volume, gain, sprites, ctx, sounds>>

----------------------------------------------------------------------------
\* The instances' own events

\* instance.stop() called on one instance the caller holds
InstanceStop(id) ==
    /\ inst[id].state # "None"
    /\ SetAssetState(StopInstance(AssetState, id))
    /\ last' = IF Live(inst[id]) THEN Returned("stopped", id) ELSE Returned("none", 0)
    /\ UNCHANGED <<src, srcBuffer, isLoaded, autoPlay, singleInstance, block,
                   preload, autoPlayOptions, buffer, destroyed, loads>>
    /\ UNCHANGED restVars

\* A playing, non-looping instance reaches its end
InstanceEnd(id) ==
    /\ inst[id].state = "Playing"
    /\ ~inst[id].loop
    /\ SetAssetState(EndInstance(AssetState, id))
    /\ last' = CompleteCall(AssetState, id)
    /\ UNCHANGED <<src, srcBuffer, isLoaded, autoPlay, singleInstance, block,
                   preload, autoPlayOptions, buffer, destroyed, loads>>
    /\ UNCHANGED restVars

\* A playing instance reaches its end and its complete callback removes the
\* Sound, as the callback of the test 'should play a file' does with
\* library.remove(alias): destroy() runs inside options.complete(this), then
\* the handler goes on to _onComplete(instance)
InstanceEndDestroys(id) ==
    /\ inst[id].state = "Playing"
    /\ ~inst[id].loop
    /\ inst[id].complete
    /\ ~destroyed
    /\ destroyed' = TRUE
    /\ teardown' = DestroySteps
    /\ sprites' = RemoveSprites(sprites, NoAlias)
    /\ srcBuffer' = FALSE
    /\ SetAssetState(OnCompleteDestroyed(RemoveInstances(AssetState), id))
    /\ last' = CompleteCall(AssetState, id)
    /\ UNCHANGED <<src, isLoaded, autoPlay, singleInstance, block, preload,
                   autoPlayOptions, buffer, loads, volume, gain, ctx, libVars>>

----------------------------------------------------------------------------
\* The asynchronous completions

LoadIds == 1..Len(loads)

\* request.onload (_loadUrl) or the success branch of fs.readFile's callback
\* (_loadPath): srcBuffer is assigned and _decode is called, which ends in a
\* TypeError on a destroyed Sound
FetchSucceed(l) ==
    /\ loads[l].phase = "fetch"
    /\ srcBuffer' = TRUE
    /\ loads' = [loads EXCEPT ![l] = Release(IssueDecode(@))]
    /\ last' = IF DecodeThrows THEN Returned("throw", 0) ELSE Returned("none", 0)
    /\ UNCHANGED <<src, isLoaded, isPlaying, autoPlay, singleInstance, block,
                   preload, autoPlayOptions, buffer, destroyed, instances, inst>>
    /\ UNCHANGED restVars

\* The byte acquisition fails: fs.readFile passes err and the callback gets
\* "File not found"; the XMLHttpRequest has no error handler, nothing is called
FetchFail(l) ==
    /\ loads[l].phase = "fetch"
    /\ loads' = [loads EXCEPT ![l] =
                    Release(IF src = "path"
                            THEN CallbackErr([@ EXCEPT !.phase = "done"])
                            ELSE [@ EXCEPT !.phase = "done"])]
    /\ last' = Returned("none", 0)
    /\ UNCHANGED <<src, srcBuffer, isLoaded, isPlaying, autoPlay, singleInstance,
                   block, preload, autoPlayOptions, buffer, destroyed, instances,
                   inst>>
    /\ UNCHANGED restVars

\* SoundContext.decode's error callback: callback(new Error(...)), and _decode
\* hands the error to the load callback
DecodeFail(l) ==
    /\ loads[l].phase = "decode"
    /\ loads' = [loads EXCEPT ![l] =
            Release(CallbackErr([@ EXCEPT !.phase = "done", !.results = @ + 1]))]
    /\ last' = Returned("none", 0)
    /\ UNCHANGED <<src, srcBuffer, isLoaded, isPlaying, autoPlay, singleInstance,
                   block, preload, autoPlayOptions, buffer, destroyed, instances,
                   inst>>
    /\ UNCHANGED restVars

\* SoundContext.decode's success callback on a destroyed Sound: isLoaded is set,
\* then this.buffer = buffer is a TypeError because _source is null
DecodeSucceedDestroyed(l) ==
    /\ loads[l].phase = "decode"
    /\ destroyed
    /\ isLoaded' = TRUE
    /\ loads' = [loads EXCEPT ![l] =
            Release([@ EXCEPT !.phase = "done", !.results = @ + 1, !.threw = TRUE])]
    /\ last' = Returned("throw", 0)
    /\ UNCHANGED <<src, srcBuffer, isPlaying, autoPlay, singleInstance, block,
                   preload, autoPlayOptions, buffer, destroyed, instances, inst>>
    /\ UNCHANGED restVars

\* SoundContext.decode's success callback: isLoaded and buffer are set, the
\* pending autoplay is played, the load callback gets the instance
DecodeSucceed(l) ==
    /\ loads[l].phase = "decode"
    /\ ~destroyed
    /\ isLoaded' = TRUE
    /\ buffer' = TRUE
    /\ IF ShouldAutoPlay
       THEN /\ NewId \in DOMAIN inst
            /\ SetAssetState(Spawn(AssetState,
                                    PlayOptions(OptionsOrDefault(autoPlayOptions))))
            /\ loads' = [loads EXCEPT ![l] =
                  Release(CallbackOk([@ EXCEPT !.phase = "done",
                                                !.results = @ + 1], NewId))]
       ELSE /\ UNCHANGED <<instances, inst, isPlaying>>
            /\ loads' = [loads EXCEPT ![l] =
                  Release(CallbackOk([@ EXCEPT !.phase = "done",
                                                !.results = @ + 1], 0))]
    /\ last' = Returned("none", 0)
    /\ UNCHANGED <<src, srcBuffer, autoPlay, singleInstance, block, preload,
                   autoPlayOptions, destroyed>>
    /\ UNCHANGED restVars

----------------------------------------------------------------------------
Next ==
    \/ \E o \in PlayOptionsSet : Play(o)
    \/ Stop
    \/ Pause
    \/ Resume
    \/ Destroy
    \/ \E b \in BOOLEAN : SetSingleInstance(b)
    \/ \E id \in InstIds : InstanceStop(id)
    \/ \E id \in InstIds : InstanceEnd(id)
    \/ \E l \in LoadIds : FetchSucceed(l)
    \/ \E l \in LoadIds : FetchFail(l)
    \/ \E l \in LoadIds : DecodeFail(l)
    \/ \E l \in LoadIds : DecodeSucceedDestroyed(l)
    \/ \E l \in LoadIds : DecodeSucceed(l)

Spec == Init /\ [][Next]_vars

\* The Sound built from bytes in memory or from nothing, and the setter of
\* buffer
InitBuffer == Init /\ src = "none"

NextBuffer ==
    \/ \E o \in PlayOptionsSet : Play(o)
    \/ Stop
    \/ Pause
    \/ Resume
    \/ Destroy
    \/ \E b \in BOOLEAN : SetSingleInstance(b)
    \/ \E b \in BOOLEAN : SetBuffer(b)
    \/ \E id \in InstIds : InstanceStop(id)
    \/ \E id \in InstIds : InstanceEnd(id)
    \/ \E l \in LoadIds : DecodeFail(l)
    \/ \E l \in LoadIds : DecodeSucceedDestroyed(l)
    \/ \E l \in LoadIds : DecodeSucceed(l)

SpecBuffer == InitBuffer /\ [][NextBuffer]_vars

\* new Sound(context, {srcBuffer, preload: true}): the Sound of the test
\* 'should play a file', with room for MaxActive instances
InitStop ==
    /\ ctx = NewContext("running")
    /\ SoundInitOn(ActiveIds)
    /\ LibraryInit
    /\ src = "none" /\ srcBuffer
    /\ preload /\ ~autoPlay
    /\ autoPlayOptions = << >>
    /\ loads[1].cb = "none"
    /\ volume = MaxVol
    /\ gain = MaxVol
    /\ sprites = NoSprites

\* That Sound played several times over, and its instances stopped one by one
\* or all together
NextStop ==
    \/ \E o \in PlayOptionsSet : Play(o)
    \/ Stop
    \/ Pause
    \/ Resume
    \/ Destroy
    \/ \E b \in BOOLEAN : SetSingleInstance(b)
    \/ \E id \in ActiveIds : InstanceStop(id)
    \/ \E id \in ActiveIds : InstanceEnd(id)
    \/ \E l \in LoadIds : DecodeFail(l)
    \/ \E l \in LoadIds : DecodeSucceedDestroyed(l)
    \/ \E l \in LoadIds : DecodeSucceed(l)

SpecStop == InitStop /\ [][NextStop]_vars

\* The same Sound with its block property set and cleared, as the test 'should
\* play with blocking' does
NextBlock ==
    \/ Next
    \/ \E b \in BOOLEAN : SetBlock(b)

SpecBlock == Init /\ [][NextBlock]_vars

\* A Sound built from bytes in memory, played before and after its load,
\* stopped, paused, resumed and destroyed
MixSound ==
    \/ \E l \in LoadIds : DecodeSucceed(l)
    \/ \E l \in LoadIds : DecodeSucceedDestroyed(l)
    \/ \E l \in LoadIds : DecodeFail(l)
    \/ \E o \in PlayOptionsSet : Play(o)
    \/ Stop
    \/ Pause
    \/ Resume
    \/ Destroy

\* That Sound with its volume set and read, directly and through the library
NextVolume ==
    \/ MixSound
    \/ \E v \in Levels : SetSoundVolume(v)
    \/ \E v \in Levels : LibraryVolume(v)
    \/ LibraryVolumeGet

SpecVolume == InitMix /\ [][NextVolume]_vars

\* That Sound and the master gain of its context: volume, mute, destroy
NextMix ==
    \/ MixSound
    \/ \E v \in Levels : ContextVolume(v)
    \/ \E b \in BOOLEAN : ContextMuted(b)
    \/ ContextToggleMute
    \/ ContextDestroy

SpecMix == InitMix /\ [][NextMix]_vars

\* That Sound and the clock of its context: pause, the settling of suspend()
\* and resume(), destroy
NextPause ==
    \/ MixSound
    \/ \E b \in BOOLEAN : ContextPaused(b)
    \/ ContextDestroy
    \/ ClockSettles

SpecPause == InitMix /\ [][NextPause]_vars

\* A Sound with sprites, built from bytes in memory, played by sprite name
\* before and after its load
NextSprite ==
    \/ \E o \in SpritePlayOptionsSet : PlaySprite(o)
    \/ Stop
    \/ Destroy
    \/ \E id \in InstIds : InstanceEnd(id)
    \/ \E l \in LoadIds : DecodeFail(l)
    \/ \E l \in LoadIds : DecodeSucceedDestroyed(l)
    \/ \E l \in LoadIds : DecodeSucceed(l)

SpecSprite == InitSprite /\ [][NextSprite]_vars

\* A Sound whose sprite table is added to and removed from while its sprites
\* are played by name
NextTable ==
    \/ \E n \in SpriteNames, m \in SpriteNames : AddSpritesCall(n, SpriteData[m])
    \/ \E source \in SpriteMaps : AddSpritesMapCall(source)
    \/ \E alias \in SpriteNames \cup {NoAlias} : RemoveSpritesCall(alias)
    \/ \E n \in SpriteNames : PlaySprite([DefaultOptions EXCEPT !.sprite = n])
    \/ Destroy
    \/ \E l \in LoadIds : DecodeFail(l)
    \/ \E l \in LoadIds : DecodeSucceedDestroyed(l)
    \/ \E l \in LoadIds : DecodeSucceed(l)

SpecTable == InitSprite /\ [][NextTable]_vars

\* A Sound built from bytes in memory and played with and without a complete
\* callback, whose instances end or are stopped, and whose complete callback
\* may remove the Sound
NextEnd ==
    \/ \E o \in EndPlayOptionsSet : Play(o)
    \/ Stop
    \/ Pause
    \/ Resume
    \/ Destroy
    \/ \E id \in InstIds : InstanceStop(id)
    \/ \E id \in InstIds : InstanceEnd(id)
    \/ \E id \in InstIds : InstanceEndDestroys(id)
    \/ \E l \in LoadIds : DecodeFail(l)
    \/ \E l \in LoadIds : DecodeSucceedDestroyed(l)
    \/ \E l \in LoadIds : DecodeSucceed(l)

SpecEnd == InitEnd /\ [][NextEnd]_vars

\* The same Sound constructed with a complete callback
SpecComplete == InitComplete /\ [][NextEnd]_vars

\* A library to which Sounds are added, played by alias and removed
NextLib ==
    \/ \E alias \in Aliases : LibraryAdd(alias)
    \/ \E alias \in Aliases : LibraryRemove(alias)
    \/ LibraryRemoveAll
    \/ \E alias \in Aliases : LibraryPlay(alias)
    \/ \E k \in SoundIds : LibraryLoaded(k)

SpecLib == InitLib /\ [][NextLib]_vars

----------------------------------------------------------------------------
\* Properties

Range(s) == {s[k] : k \in 1..Len(s)}

\* The instances of the active set are all live
ActiveAreLive == \A i \in Range(instances) : Live(inst[i])

\* Instance i is handed out in this step
Spawned(i) == inst[i].state = "None" /\ inst'[i].state # "None"

\* C1: with sound.block = true, a play() on a loaded Sound that has an active
\* instance spawns nothing and returns the first active instance, so that any
\* number of play() calls leaves one instance.
C1_BlockingPlayReturnsFirst ==
    [][\A o \in PlayOptionsSet :
          (block /\ Len(instances) > 0 /\ PlayLoaded(o))
              => /\ instances' = instances
                 /\ last' = Returned("instance", instances[1])]_vars

\* C2: under singleInstance, a play() on a loaded Sound leaves exactly the
\* instance it spawned in the active set, and every instance that was active
\* before the call is destroyed.
C2_SingleInstanceReplaces ==
    [][\A i \in InstIds :
          (singleInstance /\ Spawned(i))
              => /\ instances' = <<i>>
                 /\ inst'[i].state = "Playing"
                 /\ \A j \in Range(instances) :
                       inst'[j].state = "Destroyed" /\ inst'[j].destroys = 1]_vars

C2_Witness ==
    /\ singleInstance
    /\ last = Returned("instance", 2)
    /\ instances = <<2>>
    /\ inst[1].state = "Destroyed"

\* C3: without singleInstance, a play() on a loaded Sound returns a new instance
\* at once and appends it to the active set, so that N calls leave N instances
\* in spawn order; stop() on the playable Sound then empties the active set.
C3_PlayAppendsStopEmpties ==
    [][/\ \A o \in PlayOptionsSet :
             (~singleInstance /\ PlayLoaded(o))
                 => \E i \in InstIds :
                       /\ Spawned(i)
                       /\ i \notin Range(instances)
                       /\ instances' = instances \o <<i>>
                       /\ last' = Returned("instance", i)
                       /\ \A j \in InstIds \ {i} : inst'[j] = inst[j]
       /\ (isPlayable /\ Stop)
             => /\ instances' = << >>
                /\ ~isPlaying'
                /\ \A j \in Range(instances) : inst'[j].state = "Destroyed"]_vars

C3_Witness ==
    /\ ~singleInstance
    /\ instances = <<1, 2>>
    /\ last = Returned("instance", 2)
    /\ ActiveAreLive

\* C4: instance.stop() on an active instance removes that instance alone from
\* the active set: the others stay, in the same order, as they were.
C4_InstanceStopRemovesOne ==
    [][\A id \in ActiveIds :
          (InstanceStop(id) /\ id \in Range(instances))
              => LET Other(x) == x # id
                 IN  /\ instances' = SelectSeq(instances, Other)
                     /\ Len(instances') = Len(instances) - 1
                     /\ inst'[id].state = "Destroyed"
                     /\ \A j \in ActiveIds \ {id} : inst'[j] = inst[j]]_vars

\* Of the three active instances 1, 2 and 3 the first was stopped: 2 and 3 are
\* left, live, in the order they were played in
C4_Witness ==
    /\ last = Returned("stopped", 1)
    /\ instances = <<2, 3>>
    /\ Live(inst[2])
    /\ Live(inst[3])
    /\ inst[1].state = "Destroyed"

\* The promises play() has returned, and the fields of a load before it exists
Promises(ls) == {l \in 1..Len(ls) : ls[l].cb = "promise"}
ResolvesBefore(l) == IF l <= Len(loads) THEN loads[l].resolves ELSE 0
RejectsBefore(l) == IF l <= Len(loads) THEN loads[l].rejects ELSE 0
InFlight == {l \in LoadIds : loads[l].phase \in {"fetch", "decode"}}

\* C5 as stated: the promise of a play() made before the load is settled at most
\* once, and when it is resolved it is resolved with a spawned instance.
C5_ResolvesToInstance ==
    \A l \in Promises(loads) :
        /\ loads[l].resolves + loads[l].rejects <= 1
        /\ loads[l].resolves = 1 => loads[l].value \in InstIds

\* C5, amended: the promise of a play() made before the load is settled at most
\* once.  It is resolved by the successful decode of its own preload: with the
\* instance that decode spawns and appends to the active set when the autoplay
\* request is still pending, with no instance when a stop() has cancelled it.
\* A failed decode, a failed file read or a missing source rejects it, without a
\* change to isLoaded or to the active set.
C5_SettledOnceInstanceUnlessCancelled ==
    [][\A l \in Promises(loads') :
          /\ loads'[l].resolves + loads'[l].rejects <= 1
          /\ (ResolvesBefore(l) = 0 /\ loads'[l].resolves = 1)
                => /\ isLoaded' /\ buffer'
                   /\ loads[l].phase = "decode" /\ loads'[l].phase = "done"
                   /\ IF autoPlay
                      THEN /\ loads'[l].value \in InstIds
                           /\ Spawned(loads'[l].value)
                           /\ inst'[loads'[l].value].state = "Playing"
                           /\ instances'[Len(instances')] = loads'[l].value
                      ELSE /\ loads'[l].value = 0
                           /\ UNCHANGED <<instances, inst>>
          /\ (RejectsBefore(l) = 0 /\ loads'[l].rejects = 1)
                => /\ loads'[l].phase = "done"
                   /\ UNCHANGED <<isLoaded, buffer, instances, inst>>
          /\ (l <= Len(loads) /\ DecodeSucceed(l)) => loads'[l].resolves = 1
          /\ (l <= Len(loads) /\ (DecodeFail(l) \/ (src = "path" /\ FetchFail(l))))
                => loads'[l].rejects = 1
          /\ (l > Len(loads) /\ src = "none" /\ ~srcBuffer)
                => loads'[l].rejects = 1]_vars

C5_Witness ==
    \E l \in Promises(loads) :
        /\ loads[l].resolves = 1
        /\ loads[l].rejects = 0
        /\ loads[l].value \in Range(instances)
        /\ inst[loads[l].value].state = "Playing"

\* C6: at most one byte acquisition or decode is in flight, however many
\* play() calls are made before the load completes and whether or not the
\* constructor started a preload.
C6_OnePreloadInFlight == Cardinality(InFlight) <= 1

\* C7: stop() without a playable buffer sets autoPlay to false and clears the
\* autoplay options and changes nothing else; a decode that succeeds while
\* autoPlay is false sets isLoaded and spawns no instance.
C7_StopCancelsAutoplay ==
    [][/\ (~isPlayable /\ Stop)
             => /\ ~autoPlay'
                /\ autoPlayOptions' = << >>
                /\ UNCHANGED <<src, srcBuffer, isLoaded, isPlaying, singleInstance,
                               block, preload, buffer, destroyed, instances, inst,
                               loads>>
       /\ \A l \in LoadIds :
             (~autoPlay /\ (DecodeSucceed(l) \/ DecodeSucceedDestroyed(l)))
                 => /\ isLoaded'
                    /\ ~autoPlay'
                    /\ UNCHANGED <<instances, inst, isPlaying>>]_vars

\* A play() was pending, stop() cancelled it, and its decode has succeeded
C7_Witness ==
    /\ isLoaded
    /\ ~autoPlay
    /\ autoPlayOptions = << >>
    /\ instances = << >>
    /\ \A i \in InstIds : inst[i].state = "None"
    /\ \E l \in Promises(loads) : loads[l].resolves = 1 /\ loads[l].value = 0

\* C8 as stated: isPlaying is true exactly when the active set is non-empty.
C8_IsPlayingIffActive == isPlaying <=> Len(instances) > 0

\* How isPlaying and the active set go together
IsPlayingImpliesActive ==
    /\ (~destroyed /\ isPlaying) => Len(instances) > 0
    /\ (Len(instances) > 0 /\ ~isPlaying)
          => \A i \in Range(instances) : inst[i].state = "Paused"
    /\ destroyed => instances = << >>

\* C8, amended: on a Sound that is not destroyed isPlaying implies a non-empty
\* active set; a non-empty active set goes with isPlaying false only after
\* pause(), when every active instance is paused; destroy() empties the active
\* set and leaves isPlaying as it was.
C8_IsPlayingImpliesActive ==
    /\ IsPlayingImpliesActive
    /\ [][/\ IsPlayingImpliesActive'
          /\ (~destroyed /\ Destroy)
                => /\ instances' = << >>
                   /\ isPlaying' = isPlaying
                   /\ \A i \in Range(instances) : inst'[i].state = "Destroyed"]_vars

C8_Witness ==
    /\ ~destroyed
    /\ ~isPlaying
    /\ Len(instances) = 2
    /\ \A i \in Range(instances) : inst[i].state = "Paused"

\* C9: pause() on a live Sound pauses every active instance, keeps the active
\* set and sets isPlaying to false; resume() resumes every active instance,
\* keeps the active set and sets isPlaying to whether the set is non-empty.
\* Instances outside the active set are left alone.
C9_PauseResumeAll ==
    [][/\ (~destroyed /\ Pause)
             => /\ instances' = instances
                /\ ~isPlaying'
                /\ \A i \in InstIds :
                      inst'[i] = IF i \in Range(instances)
                                 THEN [inst[i] EXCEPT !.state = "Paused"] ELSE inst[i]
       /\ (~destroyed /\ Resume)
             => /\ instances' = instances
                /\ isPlaying' = (Len(instances) > 0)
                /\ \A i \in InstIds :
                      inst'[i] = IF i \in Range(instances)
                                 THEN [inst[i] EXCEPT !.state = "Playing"] ELSE inst[i]]_vars

\* C10 as stated: a preload invocation that has finished has issued exactly one
\* decode attempt.
C10_ExactlyOneDecode ==
    \A l \in LoadIds : loads[l].phase = "done" => loads[l].decodes = 1

\* What holds of the decode attempts and results of the preload invocations
DecodeAccounting(ls) ==
    \A l \in 1..Len(ls) :
        /\ ls[l].decodes <= 1
        /\ ls[l].results <= ls[l].decodes
        /\ ls[l].phase = "decode" <=> (ls[l].decodes = 1 /\ ls[l].results = 0)
        /\ ls[l].cbOk + ls[l].cbErr <= 1
        /\ ls[l].cbOk + ls[l].cbErr > 0 => ls[l].phase = "done"

\* C10, amended: a preload invocation issues at most one decode attempt: one
\* as soon as its bytes are there (in-memory bytes at the call, or acquired
\* bytes on a Sound that is not destroyed), none without a source or when the
\* acquisition fails.  A decode delivers one result, a buffer or an error.  On
\* an error the load callback gets the error, and isLoaded, the buffer and the
\* instances are left as they were, also with an autoplay request pending.
C10_AtMostOneDecode ==
    /\ DecodeAccounting(loads)
    /\ [][/\ DecodeAccounting(loads')
          /\ \A l \in 1..Len(loads') :
                (l > Len(loads) /\ src = "none" /\ srcBuffer /\ ~destroyed)
                    => loads'[l].decodes = 1
          /\ \A l \in LoadIds :
                /\ (FetchSucceed(l) /\ ~destroyed) => loads'[l].decodes = 1
                /\ FetchFail(l) => loads'[l].decodes = 0
                /\ DecodeFail(l)
                      => /\ loads'[l].results = 1
                         /\ loads'[l].cbOk = 0
                         /\ loads'[l].cbErr = IF loads[l].cb = "none" THEN 0 ELSE 1
                         /\ loads'[l].rejects =
                               IF loads[l].cb = "promise" THEN 1 ELSE 0
                         /\ UNCHANGED <<isLoaded, buffer, instances, inst,
                                        isPlaying>>
                /\ (DecodeSucceed(l) \/ DecodeSucceedDestroyed(l))
                      => /\ loads'[l].results = 1
                         /\ loads'[l].cbErr = 0]_vars

\* A decode failed with an autoplay request pending: the callback has the error,
\* nothing is loaded, nothing was spawned
C10_Witness ==
    /\ autoPlay
    /\ ~isLoaded
    /\ ~buffer
    /\ \A i \in InstIds : inst[i].state = "None"
    /\ \E l \in LoadIds :
          /\ loads[l].decodes = 1
          /\ loads[l].results = 1
          /\ loads[l].cbErr = 1
          /\ loads[l].cbOk = 0

C9_Witness ==
    /\ ~destroyed
    /\ instances = <<1, 2>>
    /\ inst[1].state = "Paused"
    /\ inst[2].state = "Paused"
    /\ ~isPlaying

\* The fields of a load before it exists
CbOkBefore(l) == IF l <= Len(loads) THEN loads[l].cbOk ELSE 0

\* C11: when the byte acquisition (URL request or file read) or the decode of a
\* preload fails, the load callback of that preload is called once with the
\* error, a play() waiting on it is rejected, and isLoaded stays as it was.
C11_FailureReachesCallback ==
    [][\A l \in LoadIds :
          (FetchFail(l) \/ DecodeFail(l))
              => /\ loads'[l].cbOk = 0
                 /\ loads'[l].cbErr = IF loads[l].cb = "none" THEN 0 ELSE 1
                 /\ loads'[l].rejects = IF loads[l].cb = "promise" THEN 1 ELSE 0
                 /\ isLoaded' = isLoaded]_vars

\* Neither a source locator nor in-memory bytes
NoSource == src = "none" /\ ~srcBuffer

\* A preload that ended in the configuration error as the call returned
ConfigurationError(r) ==
    /\ r.phase = "done"
    /\ r.decodes = 0 /\ r.results = 0 /\ ~r.threw
    /\ r.cbOk = 0 /\ r.resolves = 0
    /\ r.cbErr = IF r.cb = "none" THEN 0 ELSE 1
    /\ r.rejects = IF r.cb = "promise" THEN 1 ELSE 0

\* C12: a preload on a Sound with neither src nor srcBuffer fails as the call
\* returns: its callback has the error, a play() that made it is rejected, no
\* byte acquisition and no decode is started then or later, isLoaded stays false
\* and the instances are left alone.
C12_NoSourceFailsAtOnce ==
    /\ NoSource => \A l \in LoadIds : ConfigurationError(loads[l])
    /\ [][/\ \A l \in 1..Len(loads') :
                (l > Len(loads) /\ NoSource)
                    => /\ ConfigurationError(loads'[l])
                       /\ loads'[l].cb = "promise"
                       /\ last' = Returned("promise", l)
                       /\ ~isLoaded'
                       /\ UNCHANGED <<instances, inst, isPlaying, srcBuffer>>
          /\ \A l \in LoadIds :
                ConfigurationError(loads[l]) => loads'[l] = loads[l]]_vars

C12_Witness ==
    /\ NoSource
    /\ ~destroyed
    /\ ~isLoaded
    /\ \E l \in Promises(loads) :
          /\ ConfigurationError(loads[l])
          /\ last = Returned("promise", l)

\* C13: after the constructor isLoaded and isPlayable are false, and without
\* preload (preload = options.preload || autoPlay) no load is started.  isLoaded
\* changes only when a decode succeeds, to true; a load callback is called
\* without error only in a step that leaves isLoaded and isPlayable true; and
\* isPlayable implies isLoaded.
C13_LoadedOnlyByDecode ==
    /\ ~isLoaded /\ ~isPlayable
    /\ Len(loads) = IF preload THEN 1 ELSE 0
    /\ [][/\ isLoaded' # isLoaded
                => /\ isLoaded'
                   /\ \E l \in LoadIds :
                         DecodeSucceed(l) \/ DecodeSucceedDestroyed(l)
          /\ \A l \in 1..Len(loads') :
                CbOkBefore(l) < loads'[l].cbOk => isLoaded' /\ isPlayable'
          /\ isPlayable' => isLoaded']_vars

C13_Witness ==
    /\ isLoaded
    /\ isPlayable
    /\ ~preload
    /\ \E l \in LoadIds : loads[l].cbOk = 1 /\ loads[l].decodes = 1

\* C14: a completion of byte acquisition or decode that arrives after destroy()
\* leaves the Sound as it is, spawns nothing and raises nothing.
C14_LateCompletionIgnored ==
    [][\A l \in LoadIds :
          (destroyed /\ (FetchSucceed(l) \/ FetchFail(l) \/ DecodeFail(l)
                            \/ DecodeSucceed(l) \/ DecodeSucceedDestroyed(l)))
              => /\ UNCHANGED <<isLoaded, buffer, srcBuffer, instances, inst,
                                isPlaying>>
                 /\ last'.kind # "throw"
                 /\ ~loads'[l].threw]_vars

\* C15: destroy() tears down the active instances first and the node chain
\* afterwards; when it returns every instance that was active is destroyed and
\* the active set is empty.
C15_InstancesBeforeNodes ==
    [][(~destroyed /\ Destroy)
          => /\ IndexOf(teardown', "instances") > 0
             /\ IndexOf(teardown', "instances") < IndexOf(teardown', "nodes")
             /\ instances' = << >>
             /\ \A i \in Range(instances) : inst'[i].state = "Destroyed"]_vars

\* C16: play, stop, pause, resume and a second destroy on a destroyed Sound
\* raise no exception and spawn no instance.
C16_DestroyedUseDoesNotThrow ==
    [][(destroyed /\ (Pause \/ Resume \/ Stop \/ Destroy
                         \/ \E o \in PlayOptionsSet : Play(o)))
          => /\ last'.kind # "throw"
             /\ \A i \in InstIds : ~Spawned(i)]_vars

\* C17: a new Sound has volume 1.  sound.volume = v on a live Sound stores v,
\* for every level v, and puts v on the gain stage; library.volume(alias, v)
\* does the same and returns v; library.volume(alias) returns the stored
\* volume; nothing else changes the volume, and the gain stage holds it.
C17_VolumeRoundTrip ==
    /\ volume = MaxVol /\ gain = MaxVol
    /\ [][/\ \A v \in Levels :
                /\ (~destroyed /\ SetSoundVolume(v)) => volume' = v /\ gain' = v
                /\ (~destroyed /\ LibraryVolume(v))
                      => /\ volume' = v /\ gain' = v
                         /\ last' = Returned("value", v)
          /\ LibraryVolumeGet
                => volume' = volume /\ last' = Returned("value", volume)
          /\ volume' # volume
                => \E v \in Levels : SetSoundVolume(v) \/ LibraryVolume(v)
          /\ gain' = volume']_vars

\* The library set the volume of a loaded, playing Sound to 0 and read it back
C17_Witness ==
    /\ ~destroyed
    /\ isLoaded
    /\ Len(instances) > 0
    /\ volume = 0
    /\ gain = 0
    /\ last = Returned("value", 0)

\* Muting and then unmuting an unmuted context gives the context back
MuteUnmuteRestores ==
    ~ctx.muted => /\ ctx.gain = ctx.volume
                  /\ CtxSetMuted(CtxSetMuted(ctx, TRUE), FALSE) = ctx

\* C18: context.muted = true puts the master gain at 0 and leaves the stored
\* volume as it is; context.muted = false puts the gain at the stored volume;
\* toggleMute() does the one or the other; so muting and then unmuting an
\* unmuted context leaves volume and gain as they were.  A new context is
\* unmuted with the gain at its volume.  All of it on a context that has not
\* been destroyed.
C18_MuteKeepsVolume ==
    /\ ~ctx.muted /\ ctx.gain = ctx.volume
    /\ [][~CtxDestroyed(ctx')
            => /\ MuteUnmuteRestores'
               /\ (ContextMuted(TRUE) \/ (~ctx.muted /\ ContextToggleMute))
                     => /\ ctx'.muted
                        /\ ctx'.gain = 0
                        /\ ctx'.volume = ctx.volume
               /\ (ContextMuted(FALSE) \/ (ctx.muted /\ ContextToggleMute))
                     => /\ ~ctx'.muted
                        /\ ctx'.gain = ctx.volume
                        /\ ctx'.volume = ctx.volume]_vars

\* A muted context that keeps a volume other than 0 and other than the default
C18_Witness ==
    /\ ~CtxDestroyed(ctx)
    /\ ctx.muted
    /\ ctx.gain = 0
    /\ ctx.volume > 0
    /\ ctx.volume < MaxVol

\* C19: context.paused = b, and the settling of the clock after it, change no
\* instance, no active set and no isPlaying; pause() and resume() of the Sound
\* leave the context as it is.
C19_PauseLayersIndependent ==
    [][/\ ((\E b \in BOOLEAN : ContextPaused(b)) \/ ClockSettles)
             => UNCHANGED <<inst, instances, isPlaying>>
       /\ (Pause \/ Resume) => ctx' = ctx]_vars

\* The context is paused and its clock suspended while the Sound holds a paused
\* and a playing instance
C19_Witness ==
    /\ ctx.paused
    /\ ctx.state = "suspended"
    /\ instances = <<1, 2>>
    /\ inst[1].state = "Paused"
    /\ inst[2].state = "Playing"
    /\ isPlaying

\* C20: a play() on a loaded Sound that names a sprite of the table spawns an
\* instance with the start, end and speed of the sprite, whatever start, end,
\* speed or offset the options carry.
C20_SpriteOverridesOptions ==
    [][\A o \in SpritePlayOptionsSet : \A i \in InstIds :
          (o.sprite # "" /\ isLoaded /\ PlaySprite(o) /\ Spawned(i))
              => /\ inst'[i].start = sprites[o.sprite].start
                 /\ inst'[i].end = sprites[o.sprite].end
                 /\ inst'[i].speed = sprites[o.sprite].speed]_vars

----------------------------------------------------------------------------
\* C21: play() naming a sprite that is not in the sprite table throws to its
\* caller at once: no instance is spawned, no preload is started, and the
\* active set, isPlaying, autoPlay and the pending autoplay options are as
\* they were
C21_UndefinedSpriteIsUsageError ==
    [][\A o \in SpritePlayOptionsSet :
          (o.sprite # "" /\ ~sprites[o.sprite].set /\ PlaySprite(o))
          => /\ last'.kind = "throw"
             /\ UNCHANGED <<instances, inst, isPlaying, autoPlay,
                            autoPlayOptions, loads>>]_vars

\* A live Sound with an instance playing and a preload done has thrown on a
\* play of the sprite y, which its table does not hold
C21_Witness ==
    /\ last.kind = "throw"
    /\ ~destroyed
    /\ ~sprites["y"].set
    /\ isLoaded
    /\ instances # << >>

\* C22: adding a sprite under a name the table already holds fails: the sprite
\* registered under the name stays as it was, not replaced
C22_DuplicateSpriteNameFails ==
    [][\A n \in SpriteNames, m \in SpriteNames :
          (~destroyed /\ sprites[n].set /\ AddSpritesCall(n, SpriteData[m]))
          => sprites'[n] = sprites[n]]_vars

\* C30: removeSprites(name) destroys the sprite under the name once and
\* detaches that name only, every other entry of the table stays as it was;
\* for a name the table does not hold nothing changes; removeSprites() destroys
\* every sprite of the table once and leaves the table empty
C30_RemoveSpritesFrame ==
    [][\A alias \in SpriteNames \cup {NoAlias} :
          (~destroyed /\ RemoveSpritesCall(alias))
          => /\ \A n \in SpriteNames :
                   IF sprites[n].set /\ alias \in {n, NoAlias}
                   THEN /\ ~sprites'[n].set
                        /\ sprites'[n].destroys = sprites[n].destroys + 1
                   ELSE sprites'[n] = sprites[n]
             /\ alias = NoAlias => \A n \in SpriteNames : ~sprites'[n].set
             /\ UNCHANGED <<soundVars, teardown, volume, gain, ctx, libVars>>]_vars

\* On a live Sound the sprite x has been removed and destroyed once while the
\* sprite y is still in the table
C30_Witness ==
    /\ ~destroyed
    /\ ~sprites["x"].set
    /\ sprites["x"].destroys = 1
    /\ sprites["y"].set
    /\ sprites["y"].destroys = 0

\* The Sounds registered in the library
Registered == {sounds[alias] : alias \in Aliases} \ {0}

\* C23: after library.removeAll() no alias is registered, every Sound that was
\* registered is destroyed, and every instance that was active in one of them
\* is in the Destroyed state, destroyed once
C23_RemoveAllDestroysEverything ==
    [][LibraryRemoveAll
       => /\ \A alias \in Aliases : ~Exists(alias)'
          /\ \A k \in Registered :
                /\ made'[k].destroyed
                /\ made'[k].instances = << >>
                /\ \A i \in Range(made[k].instances) :
                      /\ made'[k].inst[i].state = "Destroyed"
                      /\ made'[k].inst[i].destroys = 1]_vars

\* removeAll() has destroyed two registered Sounds, one of which had two
\* instances playing
C23_Witness ==
    /\ last = Returned("removedAll", 2)
    /\ \A alias \in Aliases : ~Exists(alias)
    /\ \E k \in SoundIds :
          /\ made[k].destroyed
          /\ \A i \in 1..2 : made[k].inst[i].state = "Destroyed"

\* C24: an alias is registered to at most one Sound, and a Sound to at most
\* one alias; a registered Sound is not destroyed and an unregistered one is.
\* After add(alias) the alias exists and is the Sound returned, and the Sound
\* it replaced is destroyed; after remove(alias) the alias does not exist and
\* its Sound is destroyed; the other aliases are as they were
C24_RegistryOneSoundPerAlias ==
    /\ [](\A k \in SoundIds :
            /\ Cardinality({alias \in Aliases : sounds[alias] = k}) <= 1
            /\ k \in Registered => ~made[k].destroyed
            /\ k \notin Registered => made[k].destroyed)
    /\ [][\A alias \in Aliases :
            /\ LibraryAdd(alias)
                => /\ Exists(alias)'
                   /\ sounds'[alias] = last'.id
                   /\ last'.kind = "sound"
                   /\ last'.id \notin SoundIds
                   /\ last'.id \in SoundIds' /\ ~made'[last'.id].destroyed
                   /\ Exists(alias) => made'[sounds[alias]].destroyed
                   /\ \A other \in Aliases \ {alias} :
                         sounds'[other] = sounds[other]
            /\ (Exists(alias) /\ LibraryRemove(alias))
                => /\ ~Exists(alias)'
                   /\ made'[sounds[alias]].destroyed
                   /\ \A other \in Aliases \ {alias} :
                         /\ sounds'[other] = sounds[other]
                         /\ Exists(other) =>
                               made'[sounds[other]] = made[sounds[other]]]_vars

\* A Sound has been added under the alias of a playing Sound, which was
\* destroyed for it, while the other alias keeps its Sound
C24_Witness ==
    /\ last.kind = "sound"
    /\ sounds["a"] = last.id
    /\ Exists("b")
    /\ \E k \in SoundIds :
          /\ k \notin Registered
          /\ made[k].destroyed
          /\ made[k].inst[1].state = "Destroyed"

\* C25: every instance is destroyed at most once, by its end, its stop, a
\* singleInstance replacement or destroy(), and an instance that was
\* destroyed is not in the active set
C25_DestroyedExactlyOnce ==
    \A i \in InstIds :
        /\ inst[i].destroys <= 1
        /\ inst[i].state = "Destroyed" => i \notin Range(instances)

\* An instance reaches its natural end, whatever its callback does
NaturalEnd(id) == InstanceEnd(id) \/ InstanceEndDestroys(id)

\* C26: at the natural end of an instance played with a complete callback the
\* callback is called, once, while the instance is still live and in the
\* active set, and the instance is destroyed by the same handler and stays
\* so; the callback is called at no other step: not by instance.stop(),
\* stop(), a singleInstance replacement or destroy()
C26_CompleteOnceAtNaturalEnd ==
    [][/\ \A id \in InstIds :
            /\ (inst[id].complete /\ NaturalEnd(id))
                => /\ last' = Returned("complete", id)
                   /\ Live(inst[id])
                   /\ id \in Range(instances)
                   /\ inst'[id].state = "Destroyed"
            /\ inst[id].state = "Destroyed" => inst'[id].state = "Destroyed"
       /\ last'.kind = "complete"
            => \E id \in InstIds :
                  last'.id = id /\ inst[id].complete /\ NaturalEnd(id)
       /\ (Stop \/ Destroy \/ (\E id \in InstIds : InstanceStop(id))
            \/ (\E o \in EndPlayOptionsSet : Play(o)))
            => last'.kind # "complete"]_vars

\* The complete callback of the first instance has been called at its end
\* while a second instance plays on
C26_Witness ==
    /\ last = Returned("complete", 1)
    /\ inst[1].state = "Destroyed"
    /\ inst[1].destroys = 1
    /\ instances = <<2>>
    /\ isPlaying

\* C27: of a Sound whose constructor was given a complete callback, every natural end
\* of an instance of the Sound calls a complete callback, also the end of an
\* instance whose play() passed none
C27_ConstructorCompleteIsGlobal ==
    [][\A id \in InstIds : NaturalEnd(id) => last'.kind = "complete"]_vars

\* instance.stop() on each instance of the array s as it was when the call
\* began, once each, from the last spawned to the first
RECURSIVE StopEach(_, _, _)
StopEach(st, s, k) ==
    IF k = 0 THEN st ELSE StopEach(StopInstance(st, s[k]), s, k - 1)

\* instance.paused = b on each instance of the array s, once each, from the
\* last spawned to the first
RECURSIVE PauseEach(_, _, _, _)
PauseEach(st, s, k, b) ==
    IF k = 0 THEN st
    ELSE PauseEach([st EXCEPT !.inst[s[k]] = SetPaused(@, b)], s, k - 1, b)

\* C28: stop(), pause() and resume() leave the Sound as if each instance that
\* was active when the call began had been stopped, paused or resumed once,
\* from the last spawned to the first: stop() leaves none active and each of
\* them destroyed once, though every stopped instance removes itself from the
\* array the loop is walking; pause() and resume() reach each and remove none
C28_LoopsReachEveryInstanceOnce ==
    [][/\ (isPlayable /\ Stop)
            => /\ AssetState' = StopEach([AssetState EXCEPT !.isPlaying = FALSE],
                                         instances, Len(instances))
               /\ instances' = << >>
               /\ \A i \in Range(instances) :
                     inst'[i].state = "Destroyed" /\ inst'[i].destroys = 1
               /\ \A i \in InstIds \ Range(instances) : inst'[i] = inst[i]
       /\ \A b \in BOOLEAN :
            (~destroyed /\ (IF b THEN Pause ELSE Resume))
            => /\ inst' = PauseEach(AssetState, instances, Len(instances), b).inst
               /\ instances' = instances
               /\ \A i \in Range(instances) :
                     inst'[i].state = IF b THEN "Paused" ELSE "Playing"]_vars

\* stop() on a playable Sound has left no instance active and two destroyed,
\* once each
C28_Witness ==
    /\ isPlayable
    /\ last = Returned("none", 0)
    /\ instances = << >>
    /\ ~isPlaying
    /\ \A i \in 1..2 : inst[i].state = "Destroyed" /\ inst[i].destroys = 1

\* C29: a Sound constructed with autoPlay has a preload under way from its
\* construction on, whatever preload was given; a successful decode with
\* autoPlay set spawns one instance and no other, puts it last in the active
\* set and hands it to the callback of the load; a successful decode with
\* autoPlay clear spawns nothing and leaves autoPlay clear
C29_AutoPlayPreloadsAndSpawnsOne ==
    /\ autoPlay => preload /\ Len(loads) = 1
    /\ [][\A l \in LoadIds :
            /\ (autoPlay /\ DecodeSucceed(l))
                => \E i \in InstIds :
                      /\ Spawned(i)
                      /\ \A j \in InstIds \ {i} : ~Spawned(j)
                      /\ inst'[i].state = "Playing"
                      /\ instances' = (IF singleInstance THEN << >> ELSE instances)
                                          \o <<i>>
                      /\ loads[l].cb # "none"
                            => /\ loads'[l].cbOk = loads[l].cbOk + 1
                               /\ loads[l].cb = "loaded" => loads'[l].value = i
            /\ (~autoPlay /\ DecodeSucceed(l))
                => /\ UNCHANGED <<instances, inst, isPlaying>>
                   /\ ~autoPlay'
                   /\ loads[l].cb = "loaded" => loads'[l].value = 0]_vars

\* A Sound constructed with autoPlay and a loaded callback has decoded: its
\* one instance is active and was handed to the callback
C29_Witness ==
    /\ autoPlay
    /\ isLoaded
    /\ Len(loads) = 1
    /\ loads[1].cb = "loaded"
    /\ loads[1].cbOk = 1
    /\ loads[1].value = 1
    /\ instances = <<1>>
    /\ inst[1].state = "Playing"

----------------------------------------------------------------------------
\* C31: when several play() calls are pending on a Sound that is not loaded,
\* the instance the promise of a call is resolved with was started with the
\* options of that call: the options its closure holds, not those of another
\* pending call.
C31_PendingPlayGetsOwnOptions ==
    [][\A l \in LoadIds :
          (/\ DecodeSucceed(l)
           /\ loads[l].cb = "promise"
           /\ loads'[l].value \in InstIds
           /\ Spawned(loads'[l].value))
             => inst'[loads'[l].value] = CreatePlaying(PlayOptions(loads[l].opts[1]))]_vars

\* C32: whenever no suspend() or resume() of the audio clock is unsettled, the
\* clock is suspended exactly when the context's paused flag is true; so
\* paused = true followed at once by paused = false leaves the clock running.
C32_ClockFollowsPaused ==
    (~CtxDestroyed(ctx) /\ ctx.pending = << >>)
        => (ctx.state = "suspended" <=> ctx.paused)

\* The master gain is 0 on a muted context and the stored volume otherwise
GainFollowsMute(c) == c.gain = IF c.muted THEN 0 ELSE c.volume

\* C33: a new context has the gain at 0 when muted and at the stored volume
\* otherwise, and every operation on a context that has not been destroyed
\* keeps it so; context.volume = v on a muted context stores v, leaves the
\* context muted and the gain at 0; toggleMute() twice gives back the muted
\* flag and the gain.
C33_GainIsZeroOrVolume ==
    /\ GainFollowsMute(ctx)
    /\ [][~CtxDestroyed(ctx')
            => /\ GainFollowsMute(ctx')
               /\ \A v \in Levels :
                     (ctx.muted /\ ContextVolume(v))
                        => /\ ctx'.volume = v
                           /\ ctx'.muted
                           /\ ctx'.gain = 0
               /\ ContextToggleMute
                     => /\ ctx'.muted = ~ctx.muted
                        /\ CtxToggleMute(ctx').muted = ctx.muted
                        /\ CtxToggleMute(ctx').gain = ctx.gain]_vars

\* A muted context that was given a volume other than 0 and other than the
\* default: silent, and a toggleMute() away from that volume
C33_Witness ==
    /\ ~CtxDestroyed(ctx)
    /\ ctx.muted
    /\ ctx.volume \in 1..(MaxVol - 1)
    /\ ctx.gain = 0
    /\ CtxToggleMute(ctx).gain = ctx.volume
    /\ CtxToggleMute(CtxToggleMute(ctx)) = ctx

============================================================================
